---- MODULE Spec2Model ----
(***************************************************************************)
(* Model of server/scripts/refresh_questrade_token.py: one run of the      *)
(* command-line tool that refreshes a Questrade OAuth refresh token,       *)
(* follows redirects by hand, and persists each rotated token into         *)
(* token-store.json, either with the in-process `requests` driver or by    *)
(* delegating to the Node helper script.                                   *)
(*                                                                         *)
(* The run is sequential; `pc` is the position of the single thread of     *)
(* control and `exit` records how the process ended.  The environment      *)
(* (HTTP server, helper process, file system, process crash) is a          *)
(* nondeterministic choice at each step where the code observes it.        *)
(***************************************************************************)
EXTENDS Integers, Sequences, FiniteSets, TLC

\* ---------------------------------------------------------------- bounds
MaxCount == 2          \* largest --count value explored
MaxTok == 2            \* refresh tokens are the values 1..MaxTok

\* ------------------------------------------------------ program constants
MAX_REDIRECTS == 5
TOKEN_URL == [host |-> "login.questrade.com", path |-> "/oauth2/token"]
SESSION_PRESETS == {"python", "node"}
DRIVERS == {"requests", "node"}

\* ------------------------------------------------------------ value sets
\* A token value of NoToken stands for every falsy value Python can meet
\* where a token is expected (None, a missing key, the empty string).
NoToken == 0
TokenValues == 0..MaxTok

NoLogin == "<none>"

\* str.lower().strip() on the flag values the model explores.
LowerStrip(s) ==
  CASE s = " Node " -> "node"
    [] s = "NODE" -> "node"
    [] s = "Requests" -> "requests"
    [] OTHER -> s

PresetValues == {"python", " Node ", "bogus"}
DriverValues == {"Requests", "NODE", "bogus"}
LoginIdValues == {NoLogin, "1", "9"}

\* Login ids as they appear in the JSON document: a number or a string.
IdInt(n) == [t |-> "int", n |-> n]
IdStr(s) == [t |-> "str", s |-> s]
\* str(login.get("id"))
Str(id) ==
  IF id.t = "str" THEN id.s
  ELSE CASE id.n = 1 -> "1" [] id.n = 2 -> "2" [] OTHER -> "?"

MkLogin(id, tok) == [id |-> id, refreshToken |-> tok, updatedAt |-> 0]
MkStore(logins) == [updatedAt |-> 0, logins |-> logins]
NoStore == MkStore(<<>>)

\* The token-store.json documents a run can start from.
InitialStores ==
  { MkStore(<<>>),
    MkStore(<<MkLogin(IdInt(1), 1)>>),
    MkStore(<<MkLogin(IdInt(2), NoToken), MkLogin(IdStr("1"), 1)>>) }

\* The file on disk: absent, a complete JSON document, or what a writer
\* that was interrupted leaves behind (zero bytes, or a prefix of the text).
DiskMissing == [kind |-> "missing", doc |-> NoStore]
DiskDoc(s) == [kind |-> "doc", doc |-> s]
DiskEmpty == [kind |-> "empty", doc |-> NoStore]
DiskPartial == [kind |-> "partial", doc |-> NoStore]

\* ------------------------------------------------------------- HTTP data
NoParams == [present |-> FALSE, grant_type |-> "", refresh_token |-> NoToken]
GrantParams(tok) ==
  [present |-> TRUE, grant_type |-> "refresh_token", refresh_token |-> tok]

\* The Location header of a response: absent, present but empty, an
\* absolute URL, or an absolute-path reference.
LocNone == [kind |-> "none", host |-> "", path |-> ""]
LocEmpty == [kind |-> "empty", host |-> "", path |-> ""]
LocAbs(h, p) == [kind |-> "abs", host |-> h, path |-> p]
LocPath(p) == [kind |-> "path", host |-> "", path |-> p]
Locations ==
  { LocNone, LocEmpty, LocAbs("api.questrade.com", "/cb"), LocPath("/cb") }

\* Truthiness of response.headers.get("location")
LocationTruthy(loc) == loc.kind \in {"abs", "path"}

\* urllib.parse.urljoin(base, location) for the two reference forms above.
urljoin(base, loc) ==
  IF loc.kind = "abs" THEN [host |-> loc.host, path |-> loc.path]
  ELSE IF loc.kind = "path" THEN [host |-> base.host, path |-> loc.path]
  ELSE base


\* A response body: text that is not JSON, or a JSON object whose
\* refresh_token member is a token or falsy/absent.
BodyText == [kind |-> "text", refresh_token |-> NoToken]
BodyJson(tok) == [kind |-> "json", refresh_token |-> tok]
Bodies == {BodyText} \cup {BodyJson(t) : t \in TokenValues}

NoResponse == [status |-> 0, location |-> LocNone, body |-> BodyText]
\* The responses the server is taken to send: success and no-content
\* responses with every body, a redirect status with every Location, an
\* error status, and a 200 that carries a Location header.
Responses ==
  [status : {200, 204}, location : {LocNone}, body : Bodies]
    \cup [status : {302}, location : Locations, body : {BodyText, BodyJson(1)}]
    \cup [status : {401}, location : {LocNone}, body : {BodyText, BodyJson(1)}]
    \cup {[status |-> 200, location |-> LocPath("/cb"), body |-> BodyJson(1)]}


\* ------------------------------------------------------------ CLI values
\* One --node-header value: blank, lacking a colon, or "Key: Value".
HeaderBlank == [kind |-> "blank"]
HeaderNoColon == [kind |-> "nocolon"]
HeaderKV == [kind |-> "kv"]
HeaderLists == { <<HeaderBlank, HeaderKV>>, <<HeaderKV, HeaderNoColon>> }

CountValues == (-1)..MaxCount

ArgValues ==
  [count : CountValues, preset : PresetValues, driver : DriverValues,
   login_id : LoginIdValues, node_headers : HeaderLists]

\* main: `if args.count <= 0`
CountRejected_strict(count) == count < 0
CountRejected(count) == count <= 0

\* main: the --node-header loop raises on the first value that is neither
\* blank nor contains a colon.
HeadersMalformed(hs) == \E i \in 1..Len(hs) : hs[i].kind = "nocolon"

\* find_login: index of the selected login, or the reason there is none.
find_login(st, login_id) ==
  LET logins == st.logins
      hits == {i \in 1..Len(logins) : Str(logins[i].id) = login_id}
  IN IF login_id # NoLogin
       THEN IF hits # {}
              THEN [ok |-> TRUE, idx |-> CHOOSE i \in hits : \A j \in hits : i <= j,
                    err |-> ""]
              ELSE [ok |-> FALSE, idx |-> 0, err |-> "login_not_found"]
       ELSE IF Len(logins) = 0
              THEN [ok |-> FALSE, idx |-> 0, err |-> "no_logins"]
              ELSE [ok |-> TRUE, idx |-> 1, err |-> ""]

\* update_login_refresh_token: the store after the call, and whether
\* persist_token_store is called.
\* `timestamp` is the clock's reading at the call.
update_always(st, idx, new_token, ts) ==
  IF new_token = NoToken THEN [store |-> st, persist |-> FALSE]
  ELSE [store |-> [updatedAt |-> ts,
                   logins |-> [st.logins EXCEPT ![idx] =
                                 [@ EXCEPT !.refreshToken = new_token,
                                           !.updatedAt = ts]]],
        persist |-> TRUE]
update_login_refresh_token(st, idx, new_token, ts) ==
  IF new_token = NoToken THEN [store |-> st, persist |-> FALSE]
  ELSE IF st.logins[idx].refreshToken = new_token
    THEN [store |-> st, persist |-> FALSE]
  ELSE [store |-> [updatedAt |-> ts,
                   logins |-> [st.logins EXCEPT ![idx] =
                                 [@ EXCEPT !.refreshToken = new_token,
                                           !.updatedAt = ts]]],
        persist |-> TRUE]

\* refresh_once: `for attempt in range(MAX_REDIRECTS + 1)`
AttemptRange_extra == 0..(MAX_REDIRECTS + 1)
AttemptRange == 0..MAX_REDIRECTS

\* refresh_once: `300 <= response.status_code < 400 and location`
IsRedirect(r) == 300 <= r.status /\ r.status < 400 /\ LocationTruthy(r.location)

\* refresh_once: `params = None` when a redirect is followed
RedirectParams_keep(p) == p
RedirectParams(p) == NoParams

\* refresh_once: `current_url = urljoin(current_url, location)`
RedirectTarget(url, loc) == urljoin(url, loc)

\* requests.Response.raise_for_status raises for 4xx and 5xx only.
RaisesForStatus(status) == 400 <= status /\ status < 600

\* perform_refreshes: `token = payload["refresh_token"]`
ChainToken_stale(old, new_token) == old
ChainToken(old, new_token) == new_token

\* perform_refreshes_with_node_driver:
\* `if result.returncode != 0 or not response.get("success")`
NodeFailed_both(returncode, success) == returncode # 0 /\ ~success
NodeFailed(returncode, success) == returncode # 0 \/ ~success

\* ---------------------------------------------------------------- state
VARIABLES
  args,         \* parsed command-line flags
  pc,           \* position of the run
  exit,         \* "running", or how the process ended
  disk,         \* token-store.json
  store,        \* the in-memory store dict
  loginIdx,     \* position in store.logins of the selected login dict
  token,        \* the local `token`
  index,        \* the loop variable of perform_refreshes
  attempt,      \* the loop variable of refresh_once
  current_url,  \* refresh_once's current_url
  params,       \* refresh_once's params
  response,     \* the response refresh_once returned
  pending,      \* the new token between the update call and the assignment
  ret,          \* where control returns after persist_token_store
  now,          \* the wall clock, which advances between two updates
  helper,       \* the Node helper process, its argument, and the store and
                \* the file as they were when it was started
  result,       \* subprocess.run's CompletedProcess
  resIdx,       \* position in the helper's results list
  io,           \* which kinds of I/O the run has performed
  writes,       \* number of times token-store.json was opened for writing
  rotations,    \* number of cycles whose returned token differed from the stored one
  cyc,          \* history of the current refresh cycle: requests sent, the
                \* redirect that led to the last one, the token held when it
                \* began, the terminal status, whether response.json() gave
                \* a payload (parsed) and whether the update was called
  chain         \* history of the requests-driver token chain

vars ==
  <<args, pc, exit, disk, store, loginIdx, token, index, attempt, current_url,
    params, response, pending, ret, now, helper, result, resIdx, io, writes,
    rotations, cyc, chain>>

NoRequest == [url |-> TOKEN_URL, params |-> NoParams]
NoVia == [from |-> TOKEN_URL, loc |-> LocNone]
NoCycle ==
  [reqs |-> 0, redirects |-> 0, firstSent |-> NoToken, lastReq |-> NoRequest,
   lastLoc |-> LocNone, via |-> NoVia, startTok |-> NoToken,
   startDisk |-> NoToken, termStatus |-> 0, parsed |-> FALSE, updated |-> FALSE]
NoHelper == [started |-> FALSE, done |-> 0, token |-> NoToken, results |-> <<>>,
             failed |-> FALSE, refreshToken |-> NoToken, iterations |-> 0,
             store0 |-> NoStore, disk0 |-> DiskMissing]
NoStdout == [kind |-> "empty", success |-> FALSE, results |-> <<>>]
NoResult == [returncode |-> 0, stdout |-> NoStdout]

StoreToken == IF loginIdx = 0 THEN NoToken ELSE store.logins[loginIdx].refreshToken
DiskToken ==
  IF disk.kind = "doc" /\ loginIdx # 0 /\ loginIdx <= Len(disk.doc.logins)
    THEN disk.doc.logins[loginIdx].refreshToken
    ELSE NoToken

Init ==
  /\ args \in ArgValues
  /\ pc = "main"
  /\ exit = "running"
  /\ disk \in {DiskMissing} \cup {DiskDoc(s) : s \in InitialStores}
  /\ store = NoStore
  /\ loginIdx = 0
  /\ token = NoToken
  /\ index = 0
  /\ attempt = 0
  /\ current_url = TOKEN_URL
  /\ params = NoParams
  /\ response = NoResponse
  /\ pending = NoToken
  /\ ret = ""
  /\ now = 1
  /\ helper = NoHelper
  /\ result = NoResult
  /\ resIdx = 0
  /\ io = [store |-> FALSE, login |-> FALSE, net |-> FALSE, helper |-> FALSE]
  /\ writes = 0
  /\ rotations = 0
  /\ cyc = NoCycle
  /\ chain = [allRotated |-> TRUE, lastReturned |-> NoToken]

Running == exit = "running"

\* main (lines 389-425): validate --count and --node-header, then call
\* perform_refreshes.
Main ==
  /\ Running /\ pc = "main"
  /\ IF CountRejected(args.count) THEN exit' = "bad_count" /\ pc' = pc
     ELSE IF HeadersMalformed(args.node_headers) THEN exit' = "bad_header" /\ pc' = pc
     ELSE exit' = exit /\ pc' = "load"
  /\ UNCHANGED <<args, disk, store, loginIdx, token, index, attempt, current_url,
                 params, response, pending, ret, now, helper, result, resIdx, io,
                 writes, rotations, cyc, chain>>

\* perform_refreshes line 131, load_token_store.
LoadStore ==
  /\ Running /\ pc = "load"
  /\ io' = [io EXCEPT !.store = TRUE]
  /\ IF disk.kind = "missing"
       THEN exit' = "no_store" /\ pc' = pc /\ store' = store
       ELSE exit' = exit /\ pc' = "find" /\ store' = disk.doc
  /\ UNCHANGED <<args, disk, loginIdx, token, index, attempt, current_url, params,
                 response, pending, ret, now, helper, result, resIdx, writes,
                 rotations, cyc, chain>>

\* perform_refreshes lines 132-140, find_login and the refreshToken check.
FindLogin ==
  /\ Running /\ pc = "find"
  /\ LET r == find_login(store, args.login_id) IN
       IF ~r.ok
         THEN exit' = r.err /\ pc' = pc /\ loginIdx' = loginIdx /\ token' = token
              /\ io' = io
         ELSE /\ loginIdx' = r.idx
              /\ io' = [io EXCEPT !.login = TRUE]
              /\ token' = store.logins[r.idx].refreshToken
              /\ IF store.logins[r.idx].refreshToken = NoToken
                   THEN exit' = "no_refresh_token" /\ pc' = pc
                   ELSE exit' = exit /\ pc' = "driver"
  /\ UNCHANGED <<args, disk, store, index, attempt, current_url, params, response,
                 pending, ret, now, helper, result, resIdx, writes, rotations, cyc,
                 chain>>

\* perform_refreshes lines 142-162: the driver check and the dispatch.
CheckDriver ==
  /\ Running /\ pc = "driver"
  /\ LET driver_key == LowerStrip(args.driver) IN
       IF driver_key \notin DRIVERS THEN exit' = "bad_driver" /\ pc' = pc
       ELSE IF driver_key = "node" THEN exit' = exit /\ pc' = "node"
       ELSE exit' = exit /\ pc' = "session"
  /\ UNCHANGED <<args, disk, store, loginIdx, token, index, attempt, current_url,
                 params, response, pending, ret, now, helper, result, resIdx, io,
                 writes, rotations, cyc, chain>>

\* perform_refreshes line 164, build_session: the preset check.  The
\* session's headers and cookie jar shape the requests that are sent but
\* not the control flow, and are not part of the state.
BuildSession ==
  /\ Running /\ pc = "session"
  /\ IF LowerStrip(args.preset) \notin SESSION_PRESETS
       THEN exit' = "bad_preset" /\ pc' = pc
       ELSE exit' = exit /\ pc' = "cycle"
  /\ UNCHANGED <<args, disk, store, loginIdx, token, index, attempt, current_url, params,
                 response, pending, ret, now, helper, result, resIdx, io, writes,
                 rotations, cyc, chain>>


\* perform_refreshes lines 166-168 and 188, refresh_once lines 68-69: the
\* head of the loop starts the next cycle at TOKEN_URL with the current
\* token, or the run completes.
CycleStart ==
  /\ Running /\ pc = "cycle"
  /\ IF index < args.count
       THEN /\ pc' = "request" /\ exit' = exit
            /\ current_url' = TOKEN_URL
            /\ params' = GrantParams(token)
            /\ attempt' = 0
            /\ cyc' = [NoCycle EXCEPT !.startTok = StoreToken, !.startDisk = DiskToken]
       ELSE /\ pc' = "done" /\ exit' = "ok"
            /\ UNCHANGED <<current_url, params, attempt, cyc>>
  /\ UNCHANGED <<args, disk, store, loginIdx, token, index, response, pending, ret,
                 now, helper, result, resIdx, io, writes, rotations, chain>>

\* refresh_once lines 71-95: one pass of the loop body.  The request is
\* sent with the current URL and params; a redirect is followed, anything
\* else is returned; leaving the loop raises RuntimeError.
Attempt ==
  /\ Running /\ pc = "request"
  /\ attempt \in AttemptRange
  /\ \E r \in Responses :
       /\ io' = [io EXCEPT !.net = TRUE]
       /\ cyc' = [cyc EXCEPT
                   !.reqs = @ + 1,
                   !.redirects = IF IsRedirect(r) THEN @ + 1 ELSE @,
                   !.firstSent = IF cyc.reqs = 0 THEN params.refresh_token ELSE @,
                   !.lastReq = [url |-> current_url, params |-> params],
                   !.lastLoc = r.location,
                   !.via = [from |-> cyc.lastReq.url, loc |-> cyc.lastLoc]]
       /\ IF IsRedirect(r)
            THEN /\ current_url' = RedirectTarget(current_url, r.location)
                 /\ params' = RedirectParams(params)
                 /\ attempt' = attempt + 1
                 /\ response' = response
                 /\ IF attempt + 1 \in AttemptRange
                      THEN pc' = pc /\ exit' = exit
                      ELSE pc' = pc /\ exit' = "too_many_redirects"
            ELSE /\ response' = r
                 /\ pc' = "response" /\ exit' = exit
                 /\ UNCHANGED <<current_url, params, attempt>>
  /\ UNCHANGED <<args, disk, store, loginIdx, token, index, pending, ret, now,
                 helper, result, resIdx, writes, rotations, chain>>

\* refresh_once line 80: session.get raises (connection refused, TLS
\* failure, ...); nothing catches it.
TransportError ==
  /\ Running /\ pc = "request"
  /\ attempt \in AttemptRange
  /\ io' = [io EXCEPT !.net = TRUE]
  /\ cyc' = [cyc EXCEPT
              !.reqs = @ + 1,
              !.firstSent = IF cyc.reqs = 0 THEN params.refresh_token ELSE @,
              !.lastReq = [url |-> current_url, params |-> params],
              !.lastLoc = LocNone,
              !.via = [from |-> cyc.lastReq.url, loc |-> cyc.lastLoc]]
  /\ exit' = "transport_error"
  /\ UNCHANGED <<args, pc, disk, store, loginIdx, token, index, attempt, current_url,
                 params, response, pending, ret, now, helper, result, resIdx, writes,
                 rotations, chain>>

\* perform_refreshes lines 169-185: the status check, response.json(), and
\* the call of update_login_refresh_token up to persist_token_store.
HandleResponse ==
  /\ Running /\ pc = "response"
  /\ IF response.status # 200 /\ RaisesForStatus(response.status)
       THEN /\ exit' = "http_error"
            /\ cyc' = [cyc EXCEPT !.termStatus = response.status]
            /\ UNCHANGED <<pc, store, pending, ret, now, rotations, chain>>
     ELSE IF response.body.kind # "json"
       THEN /\ exit' = "json_error"
            /\ cyc' = [cyc EXCEPT !.termStatus = response.status]
            /\ UNCHANGED <<pc, store, pending, ret, now, rotations, chain>>
     ELSE LET new_token == response.body.refresh_token IN
          /\ exit' = exit
          /\ chain' = [allRotated |->
                         /\ chain.allRotated
                         /\ response.status = 200
                         /\ new_token # NoToken
                         /\ new_token # cyc.firstSent,
                       lastReturned |-> new_token]
          /\ rotations' = IF new_token # NoToken /\ new_token # StoreToken
                            THEN rotations + 1 ELSE rotations
          /\ IF new_token # NoToken
               THEN LET u == update_login_refresh_token(store, loginIdx, new_token, now)
                    IN   /\ store' = u.store
                         /\ now' = IF u.persist THEN now + 1 ELSE now
                         /\ pending' = new_token
                         /\ cyc' = [cyc EXCEPT !.termStatus = response.status,
                                               !.parsed = TRUE, !.updated = TRUE]
                         /\ IF u.persist
                              THEN pc' = "persist_open" /\ ret' = "advance"
                              ELSE pc' = "advance" /\ ret' = ret
               ELSE /\ pending' = token
                    /\ cyc' = [cyc EXCEPT !.termStatus = response.status,
                                          !.parsed = TRUE]
                    /\ pc' = "advance"
                    /\ UNCHANGED <<store, now, ret>>
  /\ UNCHANGED <<args, disk, loginIdx, token, index, attempt, current_url, params,
                 response, helper, result, resIdx, io, writes>>

\* perform_refreshes line 186 and the loop increment (`pending` is the
\* token itself when the payload carried none).
Advance ==
  /\ Running /\ pc = "advance"
  /\ token' = ChainToken(token, pending)
  /\ index' = index + 1
  /\ pc' = "cycle"
  /\ UNCHANGED <<args, exit, disk, store, loginIdx, attempt, current_url, params,
                 response, pending, ret, now, helper, result, resIdx, io, writes,
                 rotations, cyc, chain>>

\* persist_token_store line 50: open(..., "w") truncates the file.
PersistOpen ==
  /\ Running /\ pc = "persist_open"
  /\ disk' = DiskEmpty
  /\ writes' = writes + 1
  /\ pc' = "persist_dump"
  /\ UNCHANGED <<args, exit, store, loginIdx, token, index, attempt, current_url,
                 params, response, pending, ret, now, helper, result, resIdx, io,
                 rotations, cyc, chain>>

\* persist_token_store line 50: open fails (permissions, read-only file
\* system); the OSError propagates.
PersistOpenFails ==
  /\ Running /\ pc = "persist_open"
  /\ exit' = "io_error"
  /\ UNCHANGED <<args, pc, disk, store, loginIdx, token, index, attempt, current_url,
                 params, response, pending, ret, now, helper, result, resIdx, io,
                 writes, rotations, cyc, chain>>

\* persist_token_store lines 51-52: json.dump and the newline go through
\* the buffered handle; part of the text may already have reached the file.
PersistDump ==
  /\ Running /\ pc = "persist_dump"
  /\ disk' \in {DiskEmpty, DiskPartial}
  /\ pc' = "persist_close"
  /\ UNCHANGED <<args, exit, store, loginIdx, token, index, attempt, current_url,
                 params, response, pending, ret, now, helper, result, resIdx, io,
                 writes, rotations, cyc, chain>>

\* persist_token_store: leaving the `with` block flushes and closes.
PersistClose ==
  /\ Running /\ pc = "persist_close"
  /\ disk' = DiskDoc(store)
  /\ pc' = ret
  /\ UNCHANGED <<args, exit, store, loginIdx, token, index, attempt, current_url,
                 params, response, pending, ret, now, helper, result, resIdx, io,
                 writes, rotations, cyc, chain>>


\* perform_refreshes_with_node_driver lines 207-254: the helper-script
\* check, the JSON argument {refreshToken, iterations, config}, and
\* subprocess.run.  The config bag is handed to the helper as it is and
\* does not influence the caller's control flow.
NodeInvoke ==
  /\ Running /\ pc = "node"
  /\ \E script_exists \in BOOLEAN :
       IF ~script_exists
         THEN exit' = "no_helper" /\ UNCHANGED <<pc, helper, io>>
         ELSE /\ exit' = exit
              /\ pc' = "helper"
              /\ io' = [io EXCEPT !.helper = TRUE]
              /\ helper' = [started |-> TRUE, done |-> 0, token |-> token,
                            results |-> <<>>, failed |-> FALSE,
                            refreshToken |-> token, iterations |-> args.count,
                            store0 |-> store, disk0 |-> disk]
  /\ UNCHANGED <<args, disk, store, loginIdx, token, index, attempt, current_url,
                 params, response, pending, ret, now, result, resIdx, writes,
                 rotations, cyc, chain>>

\* The helper (refresh_questrade_token_node.js) performs one refresh
\* iteration: the provider rotates the token (or returns none) and the
\* helper records a result entry and chains the token.
HelperIterate ==
  /\ Running /\ pc = "helper"
  /\ helper.done < helper.iterations
  /\ \E t \in TokenValues :
       helper' = [helper EXCEPT
                    !.done = @ + 1,
                    !.token = IF t # NoToken THEN t ELSE @,
                    !.results = Append(@, [refreshToken |-> t])]
  /\ UNCHANGED <<args, pc, exit, disk, store, loginIdx, token, index, attempt,
                 current_url, params, response, pending, ret, now, result, resIdx,
                 io, writes, rotations, cyc, chain>>

\* The helper finished every iteration: exit code 0 and
\* {success: true, results: [...]} on standard output.
HelperComplete ==
  /\ Running /\ pc = "helper"
  /\ helper.done = helper.iterations
  /\ result' = [returncode |-> 0,
                stdout |-> [kind |-> "object", success |-> TRUE,
                            results |-> helper.results]]
  /\ pc' = "node_result"
  /\ UNCHANGED <<args, exit, disk, store, loginIdx, token, index, attempt,
                 current_url, params, response, pending, ret, now, helper, resIdx,
                 io, writes, rotations, cyc, chain>>

\* An iteration of the helper fails: {success: false, status, body, error},
\* with or without the entries of the iterations that had succeeded.
HelperFail ==
  /\ Running /\ pc = "helper"
  /\ helper.done < helper.iterations
  /\ \E rc \in {0, 1}, rs \in {<<>>, helper.results} :
       result' = [returncode |-> rc,
                  stdout |-> [kind |-> "object", success |-> FALSE, results |-> rs]]
  /\ helper' = [helper EXCEPT !.failed = TRUE]
  /\ pc' = "node_result"
  /\ UNCHANGED <<args, exit, disk, store, loginIdx, token, index, attempt,
                 current_url, params, response, pending, ret, now, resIdx, io,
                 writes, rotations, cyc, chain>>

\* The helper process ends in any other way: nothing or non-JSON text on
\* standard output, or a non-zero exit code after a success report.
HelperOther ==
  /\ Running /\ pc = "helper"
  /\ \/ \E rc \in {0, 1}, k \in {"empty", "garbage"} :
          result' = [returncode |-> rc,
                     stdout |-> [kind |-> k, success |-> FALSE, results |-> <<>>]]
     \/ result' = [returncode |-> 1,
                   stdout |-> [kind |-> "object", success |-> TRUE,
                               results |-> helper.results]]
  /\ pc' = "node_result"
  /\ UNCHANGED <<args, exit, disk, store, loginIdx, token, index, attempt,
                 current_url, params, response, pending, ret, now, helper, resIdx,
                 io, writes, rotations, cyc, chain>>

\* perform_refreshes_with_node_driver lines 256-279: the checks on the
\* helper's outcome.
NodeResult ==
  /\ Running /\ pc = "node_result"
  /\ IF result.stdout.kind = "empty"
       THEN exit' = "node_no_output" /\ UNCHANGED <<pc, resIdx>>
     ELSE IF result.stdout.kind = "garbage"
       THEN exit' = "node_unparsable" /\ UNCHANGED <<pc, resIdx>>
     ELSE IF NodeFailed(result.returncode, result.stdout.success)
       THEN exit' = "node_failed" /\ UNCHANGED <<pc, resIdx>>
     ELSE exit' = exit /\ pc' = "node_entry" /\ resIdx' = 1
  /\ UNCHANGED <<args, disk, store, loginIdx, token, index, attempt, current_url,
                 params, response, pending, ret, now, helper, result, io, writes,
                 rotations, cyc, chain>>

\* perform_refreshes_with_node_driver lines 280-283 and 286: one entry of
\* the results list, up to persist_token_store; or the end of the list.
NodeEntry ==
  /\ Running /\ pc = "node_entry"
  /\ IF resIdx > Len(result.stdout.results)
       THEN /\ exit' = "ok" /\ pc' = "done"
            /\ UNCHANGED <<store, now, pending, ret, resIdx, rotations>>
       ELSE LET new_token == result.stdout.results[resIdx].refreshToken IN
            /\ exit' = exit
            /\ rotations' = IF new_token # NoToken /\ new_token # StoreToken
                              THEN rotations + 1 ELSE rotations
            /\ IF new_token # NoToken
                 THEN LET u == update_login_refresh_token(store, loginIdx,
                                                          new_token, now)
                      IN   /\ store' = u.store
                           /\ now' = IF u.persist THEN now + 1 ELSE now
                           /\ pending' = new_token
                           /\ resIdx' = resIdx
                           /\ IF u.persist
                                THEN pc' = "persist_open" /\ ret' = "node_advance"
                                ELSE pc' = "node_advance" /\ ret' = ret
                 ELSE /\ resIdx' = resIdx + 1
                      /\ pc' = pc
                      /\ UNCHANGED <<store, now, pending, ret>>
  /\ UNCHANGED <<args, disk, loginIdx, token, index, attempt, current_url, params,
                 response, helper, result, io, writes, cyc, chain>>

\* perform_refreshes_with_node_driver line 284 and the loop increment.
NodeAdvance ==
  /\ Running /\ pc = "node_advance"
  /\ token' = pending
  /\ resIdx' = resIdx + 1
  /\ pc' = "node_entry"
  /\ UNCHANGED <<args, exit, disk, store, loginIdx, index, attempt, current_url,
                 params, response, pending, ret, now, helper, result, io, writes,
                 rotations, cyc, chain>>

\* The process is killed (or the machine loses power) between two steps.
Crash ==
  /\ Running
  /\ exit' = "crashed"
  /\ UNCHANGED <<args, pc, disk, store, loginIdx, token, index, attempt, current_url,
                 params, response, pending, ret, now, helper, result, resIdx, io,
                 writes, rotations, cyc, chain>>

Next ==
  \/ Main
  \/ LoadStore
  \/ FindLogin
  \/ CheckDriver
  \/ BuildSession
  \/ CycleStart
  \/ Attempt
  \/ TransportError
  \/ HandleResponse
  \/ Advance
  \/ PersistOpen
  \/ PersistOpenFails
  \/ PersistDump
  \/ PersistClose
  \/ NodeInvoke
  \/ HelperIterate
  \/ HelperComplete
  \/ HelperFail
  \/ HelperOther
  \/ NodeResult
  \/ NodeEntry
  \/ NodeAdvance
  \/ Crash

Spec == Init /\ [][Next]_vars


\* ------------------------------------------------------------ properties
RequestsDriver == LowerStrip(args.driver) = "requests"
NodeDriver == LowerStrip(args.driver) = "node"
NoIO == ~io.store /\ ~io.login /\ ~io.net /\ ~io.helper /\ writes = 0

\* C1: in the requests driver, a terminal response whose status is not 200
\* aborts the run in that cycle: no token payload is read from the body,
\* the update is not called, and the store's token in memory and on disk is
\* what it was when the cycle started.
C1_Non200Aborts ==
  cyc.termStatus \notin {0, 200} =>
    /\ exit \in {"http_error", "json_error"}
    /\ ~cyc.parsed
    /\ ~cyc.updated
    /\ StoreToken = cyc.startTok
    /\ DiskToken = cyc.startDisk

\* C2: one refresh_once call sends at most MAX_REDIRECTS + 1 requests, the
\* response it returns is the first that is not a 3xx with a (usable)
\* Location, and it raises exactly when MAX_REDIRECTS + 1 responses in a
\* row were such redirects.
C2_RedirectBound ==
  /\ cyc.reqs <= MAX_REDIRECTS + 1
  /\ cyc.redirects <= cyc.reqs
  /\ pc = "response" =>
       /\ ~(response.status \in 300..399 /\ LocationTruthy(response.location))
       /\ cyc.redirects = cyc.reqs - 1
  /\ exit = "too_many_redirects" <=> cyc.redirects = MAX_REDIRECTS + 1

C2_Witness ==
  /\ exit = "too_many_redirects"
  /\ cyc.reqs = MAX_REDIRECTS + 1

\* C3: in a requests-driver run whose cycles all ended in a 200 carrying a
\* token different from the one sent, the token sent by cycle k+1 is the
\* one cycle k returned and the one the store holds, k writes have happened
\* before cycle k+1's first request, and a completed run of N cycles has
\* written N times and leaves the last returned token in the store.
C3_TokenChain ==
  (RequestsDriver /\ chain.allRotated) =>
    /\ (pc \in {"request", "response"} /\ index >= 1 /\ cyc.reqs >= 1) =>
         /\ cyc.firstSent = chain.lastReturned
         /\ cyc.firstSent = cyc.startTok
         /\ cyc.firstSent = cyc.startDisk
         /\ writes = index
    /\ exit = "ok" =>
         /\ writes = args.count
         /\ disk.kind = "doc"
         /\ DiskToken = chain.lastReturned
         /\ StoreToken = chain.lastReturned

C3_Witness ==
  /\ RequestsDriver /\ chain.allRotated
  /\ exit = "ok"
  /\ args.count >= 2

\* C4: with the node driver, when an iteration of the helper fails after
\* earlier iterations rotated the token, the aborted run leaves the latest
\* rotated token in the store file.
C4_NodePersistsBeforeFailure ==
  (exit = "node_failed" /\ helper.failed /\ helper.token # helper.refreshToken) =>
    DiskToken = helper.token

\* C5: a run whose --preset or --driver is not recognised ends before the
\* store is loaded, the login resolved, or a driver invoked.
C5_ValidationBeforeIO ==
  (LowerStrip(args.preset) \notin SESSION_PRESETS
     \/ LowerStrip(args.driver) \notin DRIVERS) =>
    /\ ~io.store /\ ~io.login /\ ~io.net /\ ~io.helper
    /\ exit # "ok"

\* C6: however a run ends once a login is selected (completion, fatal
\* error, or the process killed at any step, also inside
\* persist_token_store), the store file holds a complete document whose
\* token for the login is the prior or the new token.
C6_AtomicReplace ==
  (loginIdx # 0 /\ exit # "running") =>
    /\ disk.kind = "doc"
    /\ DiskToken \in {token, StoreToken}

\* C7: update_login_refresh_token persists exactly when the new token is
\* non-empty and differs from the stored one, a repeated call with the same
\* token changes nothing, and the number of writes of the store equals the
\* number of cycles whose returned token differed from the stored one.
C7_WriteIffChanged ==
  /\ pc # "persist_open" => writes = rotations
  /\ loginIdx # 0 =>
       \A t \in TokenValues :
         LET u == update_login_refresh_token(store, loginIdx, t, now)
             v == update_login_refresh_token(u.store, loginIdx, t, now + 1)
         IN /\ u.persist <=> (t # NoToken /\ t # StoreToken)
            /\ ~u.persist => u.store = store
            /\ ~v.persist
            /\ v.store = u.store

C7_Witness ==
  /\ NodeDriver /\ exit = "ok"
  /\ Len(result.stdout.results) >= 2
  /\ result.stdout.results[1].refreshToken # NoToken
  /\ result.stdout.results[1].refreshToken # helper.refreshToken
  /\ result.stdout.results[2].refreshToken = result.stdout.results[1].refreshToken
  /\ writes = 1

\* C8: in the node driver, a helper outcome with a non-zero exit code,
\* empty or unparsable output, or success false ends the run there with
\* the store unchanged in memory and on disk, whatever results it carries;
\* the store is written only after exit code 0 and success true.
HelperBad ==
  \/ result.stdout.kind \in {"empty", "garbage"}
  \/ result.returncode # 0
  \/ ~result.stdout.success

C8_NodeFailureLeavesStore ==
  (io.helper /\ pc # "helper") =>
    /\ HelperBad =>
         /\ pc = "node_result"
         /\ exit \in {"running", "crashed", "node_no_output", "node_unparsable",
                      "node_failed"}
         /\ store = helper.store0
         /\ disk = helper.disk0
         /\ writes = 0
    /\ writes > 0 => ~HelperBad

C8_Witness ==
  /\ exit = "node_failed"
  /\ \E i \in 1..Len(result.stdout.results) :
       /\ result.stdout.results[i].refreshToken # NoToken
       /\ result.stdout.results[i].refreshToken # helper.refreshToken
  /\ DiskToken = helper.refreshToken

\* C9: a --count of 0 or less is rejected before any file, network or
\* helper I/O, whatever the other flags are.
C9_CountRejectedBeforeIO ==
  args.count <= 0 =>
    /\ pc = "main"
    /\ exit \in {"running", "bad_count", "crashed"}
    /\ NoIO
    /\ store = NoStore
    /\ disk.kind \in {"missing", "doc"}

C9_Witness ==
  /\ args.count <= 0
  /\ exit = "bad_count"
  /\ HeadersMalformed(args.node_headers)
  /\ LowerStrip(args.driver) \notin DRIVERS
  /\ NoIO

\* C10: within a cycle only the first request carries grant_type and
\* refresh_token, and it goes to TOKEN_URL with the cycle's token; every
\* later request goes to the Location of the previous response resolved
\* against the previous URL, without query parameters.
C10_ParamsOnlyOnFirstRequest ==
  (pc \in {"request", "response"} /\ cyc.reqs >= 1) =>
    /\ cyc.reqs = 1 =>
         /\ cyc.lastReq.url = TOKEN_URL
         /\ cyc.lastReq.params = GrantParams(token)
    /\ cyc.reqs > 1 =>
         /\ ~cyc.lastReq.params.present
         /\ LocationTruthy(cyc.via.loc)
         /\ cyc.lastReq.url = urljoin(cyc.via.from, cyc.via.loc)

C10_Witness ==
  /\ index >= 1
  /\ pc = "response"
  /\ cyc.reqs >= 3
  /\ cyc.lastReq.url # TOKEN_URL
  /\ cyc.via.loc.kind = "path"

====
